---- MODULE Spec2Model ----
(***************************************************************************)
(* A model of the kachy Valkey client: the configuration holder            *)
(* (kachy/config.py), the request transport and key-value operations       *)
(* (kachy/client.py), the batch pipeline (kachy/pipeline.py) and the       *)
(* module-level convenience layer (kachy/__init__.py).                     *)
(*                                                                         *)
(* The caller is single-threaded and every call blocks, so the model has   *)
(* one program counter: a call that reaches the transport is "inflight"    *)
(* while the retrying session exchanges attempts with the server, and      *)
(* nothing else runs until it has returned or raised.  The model follows   *)
(* one client object at a time, the one init() created last, and one       *)
(* pipeline made from it.                                                  *)
(*                                                                         *)
(* The modules are taken as loaded: the import of client.py by pipeline.py  *)
(* (and back) and the urllib3 version that accepts method_whitelist are    *)
(* outside the model, which starts after a successful import.              *)
(*                                                                         *)
(* JSON values are sequences of strings: a scalar is <<x>>, a list is      *)
(* <<"list", x1, ..., xn>>, Python's None / JSON null is <<"None">>.       *)
(***************************************************************************)
EXTENDS Integers, Sequences, FiniteSets, TLC

VARIABLES
    _client,    \* kachy/__init__.py:8, the registered client, or NoClient
    pipe,       \* the KachyPipeline object the caller holds
    pc,         \* "idle" or "inflight" (inside session.request)
    pending,    \* the call that is inside session.request
    last        \* the call that finished last: what it sent and how it ended
                \* (NoLast while a call is in flight)

vars == <<_client, pipe, pc, pending, last>>

----------------------------------------------------------------------------
(* Bounds of the model. *)

\* the longest command buffer a pipeline accumulates
MaxCmds == 2
\* the largest max_retries a configuration is given
MaxRetries == 1

----------------------------------------------------------------------------
(* Inputs. *)

Keys == {"k1"}
Values == {"v1"}
ExValues == {"None", "10"}
SecondsValues == {"10"}
CommandNames == {"ping"}
CommandArgs == {<<"k1">>}
AccessKeys == {"", "ak1"}
HeaderInputs == {{}, {<<"X-Trace", "1">>}}
RetryInputs == 0..MaxRetries

None == <<"None">>
PyFalse == <<"False">>
PyTrue == <<"True">>
EmptyList == <<"list">>

\* str.upper() on the command names the model uses
Upper(s) ==
    CASE s = "ping" -> "PING"
      [] s = "incr" -> "INCR"
      [] OTHER -> s

----------------------------------------------------------------------------
(* kachy/config.py *)

user_agent == "kachy-valkey-python/0.1.0"

DefaultHeaders ==
    { <<"User-Agent", user_agent>>,
      <<"Accept", "application/json">>,
      <<"Content-Type", "application/json">> }

\* __post_init__: an empty access key is refused
ConfigValid(access_key) == access_key # ""

\* __post_init__: the default headers are set only when none were given
PostInitHeaders(headers) ==
    IF headers = {} THEN DefaultHeaders ELSE headers

KachyConfig(access_key, max_retries, headers) ==
    [ access_key  |-> access_key,
      max_retries |-> max_retries,
      headers     |-> PostInitHeaders(headers) ]

----------------------------------------------------------------------------
(* kachy/client.py: the session and _make_request *)

NoConfig == [access_key |-> "", max_retries |-> 0, headers |-> {}]
NoClient == [exists |-> FALSE, config |-> NoConfig, closed |-> FALSE]

\* KachyClient.__init__: the configuration and a fresh session
KachyClient(config) == [exists |-> TRUE, config |-> config, closed |-> FALSE]

\* a retry policy that allows one retry too many
RetryTotal_OneMore(config) == config.max_retries + 1
\* Retry(total=...)
RetryTotal(config) == config.max_retries
\* Retry(status_forcelist=...)
status_forcelist == {429, 500, 502, 503, 504}
\* Retry(method_whitelist=...)
method_whitelist == {"HEAD", "GET", "OPTIONS", "POST", "PUT", "DELETE"}

\* dict[name] = value
DictSet(d, name, value) == {p \in d : p[1] # name} \cup {<<name, value>>}
DictHas(d, name) == \E p \in d : p[1] = name
DictGet(d, name, default) ==
    IF DictHas(d, name) THEN (CHOOSE p \in d : p[1] = name)[2] ELSE default

\* _make_request: the headers of the request are a copy of the
\* configuration's, with the bearer token added
RequestHeaders(config) ==
    DictSet(config.headers, "Authorization", "Bearer " \o config.access_key)

NoData == [present |-> FALSE, fields |-> {}, commands |-> <<>>]
JsonObject(fields) == [present |-> TRUE, fields |-> fields, commands |-> <<>>]
JsonCommands(cmds) == [present |-> TRUE, fields |-> {}, commands |-> cmds]

NoReq == [method |-> "", endpoint |-> <<>>, data |-> NoData, headers |-> {}]

Request(config, method, endpoint, data) ==
    [ method   |-> method,
      endpoint |-> endpoint,
      data     |-> data,
      headers  |-> RequestHeaders(config) ]

\* What the server, or the network, answers to one attempt.
\*   kind "http"   : a response with a status and a body
\*   kind "neterr" : a connection or read failure the Retry policy counts
\*   kind "fatal"  : a RequestException raised without retrying

\* a JSON object that has every field some operation extracts
FullObject ==
    { <<"success", PyTrue>>, <<"value", <<"v1">>>>, <<"deleted", PyTrue>>,
      <<"exists", PyTrue>>, <<"ttl", <<"-1">>>>, <<"result", <<"PONG">>>>,
      <<"results", <<"list", "OK", "v1">>>> }
\* an empty body, the object {} and the full object
Bodies ==
    { [empty |-> TRUE, obj |-> {}],
      [empty |-> FALSE, obj |-> {}],
      [empty |-> FALSE, obj |-> FullObject] }
NoBody == [empty |-> TRUE, obj |-> {}]
Statuses == {200, 401, 404, 500, 503}
Answers ==
    { [kind |-> "http", status |-> 200, body |-> b] : b \in Bodies }
    \cup { [kind |-> "http", status |-> s, body |-> NoBody] : s \in Statuses \ {200} }
    \cup { [kind |-> "neterr", status |-> 0, body |-> NoBody],
           [kind |-> "fatal", status |-> 0, body |-> NoBody] }
NoAnswer == [kind |-> "", status |-> 0, body |-> NoBody]

\* Retry.increment: one retry is used up; the policy is exhausted below zero
RetryIncrement(total) == total - 1
IsExhausted(total) == total < 0

\* urllib3 Retry.is_retry / connection errors, as configured by _create_session
IsRetry(method, answer) ==
    \/ answer.kind = "neterr"
    \/ /\ answer.kind = "http"
       /\ method \in method_whitelist
       /\ answer.status \in status_forcelist

\* _make_request, lines 99-107: what the call yields once the session has
\* returned a response or raised.  exhausted: the session gave up retrying
\* and raised (a RequestException).
\*   [raised, error, isNone, obj]
Returned(isNone, obj) == [raised |-> FALSE, error |-> "", isNone |-> isNone, obj |-> obj]
Raised(error) == [raised |-> TRUE, error |-> error, isNone |-> FALSE, obj |-> {}]

Classify(answer, exhausted) ==
    IF exhausted \/ answer.kind # "http" THEN Raised("KachyConnectionError")
    ELSE IF answer.status = 401 THEN Raised("KachyAuthenticationError")
    ELSE IF answer.status >= 400 THEN Raised("KachyResponseError")
    ELSE IF answer.body.empty THEN Returned(TRUE, {})
    ELSE Returned(FALSE, answer.body.obj)

----------------------------------------------------------------------------
(* kachy/client.py: the key-value operations *)

\* The request each operation makes; call = <<op, arguments...>>
OpRequest(config, call) ==
    LET op == call[1] IN
    CASE op = "set" ->
           Request(config, "POST", <<"/valkey/set">>,
               JsonObject({<<"key", <<call[2]>>>>, <<"value", <<call[3]>>>>}
                   \cup (IF call[4] # "None" THEN {<<"ex", <<call[4]>>>>} ELSE {})))
      [] op = "get" -> Request(config, "GET", <<"/valkey/get/", call[2]>>, NoData)
      [] op = "delete" -> Request(config, "DELETE", <<"/valkey/del/", call[2]>>, NoData)
      [] op = "exists" -> Request(config, "GET", <<"/valkey/exists/", call[2]>>, NoData)
      [] op = "expire" ->
           Request(config, "POST", <<"/valkey/expire">>,
               JsonObject({<<"key", <<call[2]>>>>, <<"seconds", <<call[3]>>>>}))
      [] op = "ttl" -> Request(config, "GET", <<"/valkey/ttl/", call[2]>>, NoData)
      [] op = "redis" ->
           Request(config, "POST", <<"/valkey/exec">>,
               JsonObject({<<"command", <<Upper(call[2])>>>>,
                           <<"args", <<"list">> \o SubSeq(call, 3, Len(call))>>}))

\* result.get(field, default) of each operation
OpField(op) ==
    CASE op = "set" -> "success"
      [] op = "get" -> "value"
      [] op = "delete" -> "deleted"
      [] op = "exists" -> "exists"
      [] op = "expire" -> "success"
      [] op = "ttl" -> "ttl"
      [] op = "redis" -> "result"
      [] op = "execute" -> "results"

OpDefault(op) ==
    CASE op = "set" -> PyFalse
      [] op = "get" -> None
      [] op = "delete" -> PyFalse
      [] op = "exists" -> PyFalse
      [] op = "expire" -> PyFalse
      [] op = "ttl" -> <<"-2">>
      [] op = "redis" -> None
      [] op = "execute" -> EmptyList

\* result.get(...) on what _make_request yielded: None has no get
\*   [raised, error, value]
Extract(op, t) ==
    IF t.raised THEN [raised |-> TRUE, error |-> t.error, value |-> None]
    ELSE IF t.isNone THEN [raised |-> TRUE, error |-> "AttributeError", value |-> None]
    ELSE [raised |-> FALSE, error |-> "", value |-> DictGet(t.obj, OpField(op), OpDefault(op))]

----------------------------------------------------------------------------
(* kachy/pipeline.py *)

NoPipe == [exists |-> FALSE, commands |-> <<>>, entered |-> FALSE]
KachyPipeline == [exists |-> TRUE, commands |-> <<>>, entered |-> FALSE]

\* a builder that puts its command in front of the buffer
AppendCommand_Front(commands, cmd) == <<cmd>> \o commands
\* self.commands.append(cmd)
AppendCommand(commands, cmd) == Append(commands, cmd)

\* the tuples set/get/delete/exists/expire/ttl/redis append
BuilderTuple(call) ==
    LET op == call[1] IN
    CASE op = "set" -> <<"SET", call[2], call[3], call[4]>>
      [] op = "get" -> <<"GET", call[2]>>
      [] op = "delete" -> <<"DEL", call[2]>>
      [] op = "exists" -> <<"EXISTS", call[2]>>
      [] op = "expire" -> <<"EXPIRE", call[2], call[3]>>
      [] op = "ttl" -> <<"TTL", call[2]>>
      [] op = "redis" -> <<Upper(call[2])>> \o SubSeq(call, 3, Len(call))

\* execute: {"command": cmd[0], "args": list(cmd[1:])} for cmd in self.commands
CommandBody(commands) ==
    [i \in 1..Len(commands) |->
        [command |-> commands[i][1], args |-> SubSeq(commands[i], 2, Len(commands[i]))]]

ExecuteRequest(config, commands) ==
    Request(config, "POST", <<"/valkey/pipeline">>, JsonCommands(CommandBody(commands)))

\* execute: the buffer after the try block succeeded
CommandsAfterSuccess(commands) == <<>>
\* an except block that re-raises without clearing
CommandsAfterError_Kept(commands) == commands
\* execute: the buffer after the except block
CommandsAfterError(commands) == <<>>

\* an __exit__ that never flushes
ExitFlushes_Never(commands) == FALSE
\* __exit__: whether it calls execute()
ExitFlushes(commands) == commands # <<>>

\* the methods class KachyClient defines
KachyClientMethods ==
    { "set", "get", "delete", "exists", "expire", "ttl", "redis",
      "pipeline", "close", "__enter__", "__exit__" }

\* the client method each convenience function of kachy/__init__.py calls
ModuleDelegate(fn) == fn

----------------------------------------------------------------------------
(* State *)

NoPending ==
    [ op |-> "", via |-> "", call |-> <<>>, req |-> NoReq, attempts |-> 0,
      total |-> 0, answer |-> NoAnswer, pre |-> <<>>, closedBefore |-> FALSE ]

NoLast ==
    [ op |-> "", via |-> "", call |-> <<>>, outcome |-> "", error |-> "",
      value |-> None, nreq |-> 0, req |-> NoReq, attempts |-> 0,
      answer |-> NoAnswer, pre |-> <<>>, closedBefore |-> FALSE,
      registered |-> FALSE ]

Init ==
    /\ _client = NoClient
    /\ pipe = NoPipe
    /\ pc = "idle"
    /\ pending = NoPending
    /\ last = NoLast

\* a call that ended without reaching the transport
Local(via, call, outcome, error, value) ==
    [ op |-> call[1], via |-> via, call |-> call, outcome |-> outcome,
      error |-> error, value |-> value, nreq |-> 0, req |-> NoReq,
      attempts |-> 0, answer |-> NoAnswer, pre |-> pipe.commands,
      closedBefore |-> _client.closed, registered |-> _client.exists ]

\* a call enters _make_request and session.request
Send(via, call, req) ==
    /\ pc' = "inflight"
    /\ pending' =
         [ op |-> call[1], via |-> via, call |-> call, req |-> req,
           attempts |-> 0, total |-> RetryTotal(_client.config),
           answer |-> NoAnswer, pre |-> pipe.commands,
           closedBefore |-> _client.closed ]
    /\ last' = NoLast
    /\ UNCHANGED <<_client, pipe>>

\* the call inside session.request returns or raises
Done(t, answer, attempts) ==
    LET op == pending.op
        isFlush == op \in {"execute", "__exit__"}
        e == Extract(IF isFlush THEN "execute" ELSE op, t)
    IN
    /\ pc' = "idle"
    /\ pending' = NoPending
    /\ last' =
         [ op |-> op, via |-> pending.via, call |-> pending.call,
           outcome |-> IF e.raised THEN "raise" ELSE "return",
           error |-> e.error,
           value |-> IF op = "__exit__" THEN None ELSE e.value,
           nreq |-> 1, req |-> pending.req, attempts |-> attempts,
           answer |-> answer, pre |-> pending.pre,
           closedBefore |-> pending.closedBefore, registered |-> TRUE ]
    /\ pipe' =
         IF isFlush
         THEN [pipe EXCEPT !.commands =
                  IF e.raised THEN CommandsAfterError(pipe.commands)
                  ELSE CommandsAfterSuccess(pipe.commands)]
         ELSE pipe
    /\ UNCHANGED _client

\* session.request: one attempt and the server's answer to it
Attempt ==
    /\ pc = "inflight"
    /\ \E a \in Answers :
         LET n == pending.attempts + 1
             left == RetryIncrement(pending.total)
         IN
         IF IsRetry(pending.req.method, a)
         THEN IF IsExhausted(left)
              THEN Done(Classify(a, TRUE), a, n)
              ELSE /\ pending' = [pending EXCEPT !.attempts = n, !.total = left,
                                                  !.answer = a]
                   /\ UNCHANGED <<_client, pipe, pc, last>>
         ELSE Done(Classify(a, FALSE), a, n)

----------------------------------------------------------------------------
(* kachy/client.py: the operations of the client object *)

SetCalls == {<<"set", k, v, ex>> : k \in Keys, v \in Values, ex \in ExValues}
KeyCalls(op) == {<<op, k>> : k \in Keys}
ExpireCalls == {<<"expire", k, s>> : k \in Keys, s \in SecondsValues}
RedisCalls == {<<"redis", c>> \o a : c \in CommandNames, a \in CommandArgs}

ClientCall(via, call) ==
    /\ _client.exists
    /\ Send(via, call, OpRequest(_client.config, call))

c_set ==
    /\ pc = "idle"
    /\ \E call \in SetCalls : ClientCall("client", call)
c_get ==
    /\ pc = "idle"
    /\ \E call \in KeyCalls("get") : ClientCall("client", call)
c_delete ==
    /\ pc = "idle"
    /\ \E call \in KeyCalls("delete") : ClientCall("client", call)
c_exists ==
    /\ pc = "idle"
    /\ \E call \in KeyCalls("exists") : ClientCall("client", call)
c_expire ==
    /\ pc = "idle"
    /\ \E call \in ExpireCalls : ClientCall("client", call)
c_ttl ==
    /\ pc = "idle"
    /\ \E call \in KeyCalls("ttl") : ClientCall("client", call)
c_redis ==
    /\ pc = "idle"
    /\ \E call \in RedisCalls : ClientCall("client", call)

\* pipeline(): a new, empty pipeline on this client
c_pipeline ==
    /\ pc = "idle"
    /\ _client.exists
    /\ pipe' = KachyPipeline
    /\ last' = Local("client", <<"pipeline">>, "return", "", None)
    /\ UNCHANGED <<_client, pc, pending>>

\* close(): session.close()
Close(client) == [client EXCEPT !.closed = TRUE]

c_close ==
    /\ pc = "idle"
    /\ _client.exists
    /\ _client' = Close(_client)
    /\ last' = Local("client", <<"close">>, "return", "", None)
    /\ UNCHANGED <<pipe, pc, pending>>

\* with client: ... leaving the block calls close()
c_exit ==
    /\ pc = "idle"
    /\ _client.exists
    /\ _client' = Close(_client)
    /\ last' = Local("client", <<"c.__exit__">>, "return", "", None)
    /\ UNCHANGED <<pipe, pc, pending>>

----------------------------------------------------------------------------
(* kachy/pipeline.py: the operations of the pipeline object *)

\* a builder call: one tuple is appended, self is returned, nothing is sent
Builder(call) ==
    /\ pipe.exists
    /\ Len(pipe.commands) < MaxCmds
    /\ pipe' = [pipe EXCEPT !.commands = AppendCommand(pipe.commands, BuilderTuple(call))]
    /\ last' = Local("pipeline", call, "return", "", <<"self">>)
    /\ UNCHANGED <<_client, pc, pending>>

p_set ==
    /\ pc = "idle"
    /\ \E call \in SetCalls : Builder(call)
p_get ==
    /\ pc = "idle"
    /\ \E call \in KeyCalls("get") : Builder(call)
p_delete ==
    /\ pc = "idle"
    /\ \E call \in KeyCalls("delete") : Builder(call)
p_exists ==
    /\ pc = "idle"
    /\ \E call \in KeyCalls("exists") : Builder(call)
p_expire ==
    /\ pc = "idle"
    /\ \E call \in ExpireCalls : Builder(call)
p_ttl ==
    /\ pc = "idle"
    /\ \E call \in KeyCalls("ttl") : Builder(call)
p_redis ==
    /\ pc = "idle"
    /\ \E call \in RedisCalls : Builder(call)

\* execute(): nothing to send when the buffer is empty
ExecuteSends(commands) == commands # <<>>

p_execute ==
    /\ pc = "idle"
    /\ pipe.exists
    /\ IF ExecuteSends(pipe.commands)
       THEN Send("pipeline", <<"execute">>, ExecuteRequest(_client.config, pipe.commands))
       ELSE /\ last' = Local("pipeline", <<"execute">>, "return", "", EmptyList)
            /\ UNCHANGED <<_client, pipe, pc, pending>>

\* with pipeline: ... entering the block returns the pipeline
p_enter ==
    /\ pc = "idle"
    /\ pipe.exists
    /\ ~pipe.entered
    /\ pipe' = [pipe EXCEPT !.entered = TRUE]
    /\ last' = Local("pipeline", <<"__enter__">>, "return", "", <<"self">>)
    /\ UNCHANGED <<_client, pc, pending>>

\* leaving the block, normally (exc = "None") or by an exception
ExcTypes == {"None", "ValueError"}

p_exit ==
    /\ pc = "idle"
    /\ pipe.exists
    /\ pipe.entered
    /\ \E exc \in ExcTypes :
         IF ExitFlushes(pipe.commands)
         THEN /\ pc' = "inflight"
              /\ pending' =
                   [ op |-> "__exit__", via |-> "pipeline", call |-> <<"__exit__", exc>>,
                     req |-> ExecuteRequest(_client.config, pipe.commands),
                     attempts |-> 0, total |-> RetryTotal(_client.config),
                     answer |-> NoAnswer, pre |-> pipe.commands,
                     closedBefore |-> _client.closed ]
              /\ pipe' = [pipe EXCEPT !.entered = FALSE]
              /\ last' = NoLast
              /\ UNCHANGED _client
         ELSE /\ pipe' = [pipe EXCEPT !.entered = FALSE]
              /\ last' = Local("pipeline", <<"__exit__", exc>>, "return", "", None)
              /\ UNCHANGED <<_client, pc, pending>>

----------------------------------------------------------------------------
(* kachy/__init__.py: the registered client and the convenience functions *)

\* init(): the configuration is validated before _client is assigned; a new
\* client replaces the old one, whose pipeline the model stops following
init ==
    /\ pc = "idle"
    /\ \E access_key \in AccessKeys, max_retries \in RetryInputs, headers \in HeaderInputs :
         IF ConfigValid(access_key)
         THEN /\ _client' = KachyClient(KachyConfig(access_key, max_retries, headers))
              /\ pipe' = NoPipe
              /\ last' = Local("module", <<"init", access_key>>, "return", "", <<"client">>)
              /\ UNCHANGED <<pc, pending>>
         ELSE /\ last' = Local("module", <<"init", access_key>>, "raise", "ValueError", None)
              /\ UNCHANGED <<_client, pipe, pc, pending>>

\* a get_client() that returns _client unchecked
GetClientRaises_Never(client) == FALSE
\* get_client(): raises unless a client is registered
GetClientRaises(client) == ~client.exists

\* a convenience function: get_client(), then the client's method
ModuleCall(fn, call) ==
    IF GetClientRaises(_client)
       THEN /\ last' = Local("module", <<fn>> \o Tail(call), "raise", "RuntimeError", None)
            /\ UNCHANGED <<_client, pipe, pc, pending>>
       ELSE IF ~_client.exists \/ ModuleDelegate(fn) \notin KachyClientMethods
       THEN /\ last' = Local("module", <<fn>> \o Tail(call), "raise", "AttributeError", None)
            /\ UNCHANGED <<_client, pipe, pc, pending>>
       ELSE IF fn = "pipeline"
       THEN /\ pipe' = KachyPipeline
            /\ last' = Local("module", <<fn>>, "return", "", None)
            /\ UNCHANGED <<_client, pc, pending>>
       ELSE Send("module", call, OpRequest(_client.config, call))

m_set ==
    /\ pc = "idle"
    /\ \E call \in SetCalls : ModuleCall("set", call)
m_get ==
    /\ pc = "idle"
    /\ \E call \in KeyCalls("get") : ModuleCall("get", call)
m_delete ==
    /\ pc = "idle"
    /\ \E call \in KeyCalls("delete") : ModuleCall("delete", call)
m_exists ==
    /\ pc = "idle"
    /\ \E call \in KeyCalls("exists") : ModuleCall("exists", call)
m_expire ==
    /\ pc = "idle"
    /\ \E call \in ExpireCalls : ModuleCall("expire", call)
m_ttl ==
    /\ pc = "idle"
    /\ \E call \in KeyCalls("ttl") : ModuleCall("ttl", call)
m_valkey ==
    /\ pc = "idle"
    /\ \E call \in RedisCalls : ModuleCall("valkey", call)
m_pipeline ==
    /\ pc = "idle"
    /\ ModuleCall("pipeline", <<"pipeline">>)

\* close(): closes the registered client, if any; _client stays assigned
m_close ==
    /\ pc = "idle"
    /\ _client' = IF _client.exists THEN Close(_client) ELSE _client
    /\ last' = Local("module", <<"close">>, "return", "", None)
    /\ UNCHANGED <<pipe, pc, pending>>

----------------------------------------------------------------------------

Next ==
    \/ init \/ m_set \/ m_get \/ m_delete \/ m_exists \/ m_expire \/ m_ttl
    \/ m_valkey \/ m_pipeline \/ m_close
    \/ c_set \/ c_get \/ c_delete \/ c_exists \/ c_expire \/ c_ttl \/ c_redis
    \/ c_pipeline \/ c_close \/ c_exit
    \/ p_set \/ p_get \/ p_delete \/ p_exists \/ p_expire \/ p_ttl \/ p_redis
    \/ p_execute \/ p_enter \/ p_exit
    \/ Attempt

Spec == Init /\ [][Next]_vars

\* The pipeline never touches a key-value operation's result and a key-value
\* operation never touches the buffer, so the properties are checked on the
\* two callers below, whose state spaces are small enough to search fully.

\* A caller that uses the client and the convenience functions directly.
NextClient ==
    \/ init \/ m_set \/ m_get \/ m_delete \/ m_exists \/ m_expire \/ m_ttl
    \/ m_valkey \/ m_pipeline \/ m_close
    \/ c_set \/ c_get \/ c_delete \/ c_exists \/ c_expire \/ c_ttl \/ c_redis
    \/ c_pipeline \/ c_close \/ c_exit
    \/ Attempt

SpecClient == Init /\ [][NextClient]_vars

\* A caller that batches its commands in a pipeline.
NextPipeline ==
    \/ init \/ m_pipeline \/ m_close \/ c_pipeline \/ c_close \/ c_exit
    \/ p_set \/ p_get \/ p_delete \/ p_exists \/ p_expire \/ p_ttl \/ p_redis
    \/ p_execute \/ p_enter \/ p_exit
    \/ Attempt

SpecPipeline == Init /\ [][NextPipeline]_vars

----------------------------------------------------------------------------
(* Properties *)

Idle == pc = "idle"
KvOps == {"set", "get", "delete", "exists", "expire", "ttl", "redis"}
ConvenienceFns == {"set", "get", "delete", "exists", "expire", "ttl", "valkey", "pipeline"}
RetryableStatuses == {429, 500, 502, 503, 504}
IsPipelinePost(req, commands) ==
    /\ req.method = "POST"
    /\ req.endpoint = <<"/valkey/pipeline">>
    /\ Len(req.data.commands) = Len(commands)
    /\ \A i \in 1..Len(commands) :
         /\ req.data.commands[i].command = Head(commands[i])
         /\ req.data.commands[i].args = Tail(commands[i])

\* C1: once execute() has returned or raised, whatever the transport call's
\* outcome was, the pipeline's command buffer is empty; an execute() called
\* directly after a failed execute() sends nothing and returns an empty list.
C1_ExecuteClears ==
    /\ [](Idle /\ last.op = "execute" => pipe.commands = <<>>)
    /\ [][(Idle /\ last.op = "execute" /\ last.outcome = "raise" /\ p_execute)
            => (pc' = "idle" /\ last'.nreq = 0 /\ last'.outcome = "return"
                /\ last'.value = EmptyList)]_vars

\* a two-command batch whose flush got an empty 200 body and raised
C1_Witness ==
    /\ Idle /\ last.op = "execute" /\ Len(last.pre) = 2
    /\ last.outcome = "raise" /\ last.error = "AttributeError"
    /\ last.answer.status = 200 /\ pipe.commands = <<>>

\* C2: a builder call sends nothing, returns the pipeline and puts its command
\* at the end of the buffer; execute() on a non-empty buffer makes exactly one
\* transport call, POST /valkey/pipeline, carrying the buffered commands in
\* order; execute() on an empty buffer makes no transport call and returns an
\* empty list.
C2_OnePostInOrder ==
    Idle /\ last.via = "pipeline" =>
        /\ last.op \in KvOps =>
              /\ last.nreq = 0 /\ last.outcome = "return" /\ last.value = <<"self">>
              /\ Len(pipe.commands) = Len(last.pre) + 1
              /\ SubSeq(pipe.commands, 1, Len(last.pre)) = last.pre
              /\ pipe.commands[Len(pipe.commands)] = BuilderTuple(last.call)
        /\ last.op = "execute" /\ last.pre # <<>> =>
              /\ last.nreq = 1
              /\ IsPipelinePost(last.req, last.pre)
        /\ last.op = "execute" /\ last.pre = <<>> =>
              /\ last.nreq = 0 /\ last.outcome = "return" /\ last.value = EmptyList

\* two different commands were buffered and flushed in one request
C2_Witness ==
    /\ Idle /\ last.op = "execute" /\ last.nreq = 1 /\ last.outcome = "return"
    /\ Len(last.req.data.commands) = 2
    /\ last.req.data.commands[1].command = "SET"
    /\ last.req.data.commands[2].command = "PING"

\* C3: a key-value operation whose request got a non-error HTTP response does
\* not raise, and returns the documented default when the field is absent.
C3_DefaultsNeverRaise ==
    Idle /\ last.via \in {"client", "module"} /\ last.op \in KvOps /\ last.nreq = 1
         /\ last.answer.kind = "http" /\ last.answer.status < 400 =>
        /\ last.outcome = "return"
        /\ (last.answer.body.empty \/ ~DictHas(last.answer.body.obj, OpField(last.op)))
              => last.value = OpDefault(last.op)

\* C4: a failed request raises the authentication error for a final 401, the
\* response error for any other final status >= 400, and the connection error
\* for a network failure.
C4_ErrorKinds ==
    Idle /\ last.nreq = 1 =>
        /\ last.answer.kind = "http" /\ last.answer.status = 401
              => last.outcome = "raise" /\ last.error = "KachyAuthenticationError"
        /\ last.answer.kind = "http" /\ last.answer.status >= 400 /\ last.answer.status # 401
              => last.outcome = "raise" /\ last.error = "KachyResponseError"
        /\ last.answer.kind \in {"neterr", "fatal"}
              => last.outcome = "raise" /\ last.error = "KachyConnectionError"

\* C5: one request is sent at most 1 + max_retries times; it is sent again
\* only after a retryable answer (never after a 401), for every method the
\* client uses; a call whose last answer was a retryable status has used the
\* whole budget and raised a response error or a connection error.
C5_RetryBudget ==
    /\ pc = "inflight" =>
          /\ pending.attempts <= _client.config.max_retries
          /\ pending.attempts > 0 =>
                \/ pending.answer.kind = "neterr"
                \/ pending.answer.kind = "http" /\ pending.answer.status \in RetryableStatuses
    /\ Idle /\ last.nreq = 1 =>
          /\ last.attempts <= _client.config.max_retries + 1
          /\ last.answer.kind = "http" /\ last.answer.status \in RetryableStatuses =>
                /\ last.attempts = _client.config.max_retries + 1
                /\ last.outcome = "raise"
                /\ last.error \in {"KachyResponseError", "KachyConnectionError"}
          /\ last.answer.kind = "http" /\ last.answer.status = 401 =>
                last.error = "KachyAuthenticationError"

\* a DELETE answered 503 until the budget of one retry was used up
C5_Witness ==
    /\ Idle /\ last.req.method = "DELETE" /\ last.answer.status = 503
    /\ _client.config.max_retries = 1 /\ last.attempts = 2
    /\ last.outcome = "raise"

\* C6: once the client is closed, every later operation on it fails and
\* sends no request.
C6_ClosedClientFails ==
    /\ pc = "inflight" => ~_client.closed
    /\ Idle /\ last.closedBefore /\ last.op \in KvOps \cup {"valkey"}
          => last.outcome = "raise" /\ last.nreq = 0

\* C7: with no client registered every convenience function raises the
\* "not initialized" error and sends nothing; an init() that fails leaves
\* the registration as it was.
C7_NotInitialized ==
    /\ pc = "inflight" => _client.exists
    /\ Idle /\ last.via = "module" /\ last.op \in ConvenienceFns /\ ~last.registered =>
          /\ last.outcome = "raise" /\ last.error = "RuntimeError"
          /\ last.nreq = 0 /\ ~_client.exists /\ ~pipe.exists
    /\ Idle /\ last.op = "init" /\ last.outcome = "raise" =>
          /\ last.call[2] = ""
          /\ _client.exists = last.registered

\* valkey() was called with no client registered and raised RuntimeError
C7_Witness ==
    /\ Idle /\ last.via = "module" /\ last.op = "valkey"
    /\ ~_client.exists /\ last.error = "RuntimeError" /\ last.nreq = 0

\* C8: after a successful init() every convenience function makes the
\* transport call of the client's operation; valkey(name, *args) sends
\* POST /valkey/exec with {command: upper(name), args} and returns the
\* result field, or null.
C8_ConvenienceDelegates ==
    Idle /\ last.via = "module" /\ last.registered
         /\ last.op \in ConvenienceFns \ {"pipeline"} =>
        /\ last.nreq = 1
        /\ last.op # "valkey" => last.req = OpRequest(_client.config, last.call)
        /\ last.op = "valkey" =>
              /\ last.req.method = "POST"
              /\ last.req.endpoint = <<"/valkey/exec">>
              /\ <<"command", <<Upper(last.call[2])>>>> \in last.req.data.fields
              /\ <<"args", <<"list">> \o SubSeq(last.call, 3, Len(last.call))>>
                    \in last.req.data.fields
              /\ last.answer.kind = "http" /\ last.answer.status < 400 =>
                    last.value = DictGet(last.answer.body.obj, "result", None)

\* C9: entering the scope returns the pipeline and changes nothing; after any
\* exit from the scope the buffer is empty, a non-empty buffer having been
\* sent in exactly one request, and an empty one causing no request and no
\* error.
C9_ScopeExitFlushes ==
    Idle /\ last.via = "pipeline" =>
        /\ last.op = "__enter__" =>
              /\ last.outcome = "return" /\ last.value = <<"self">>
              /\ last.nreq = 0 /\ pipe.commands = last.pre
        /\ last.op = "__exit__" =>
              /\ pipe.commands = <<>>
              /\ last.pre # <<>> => last.nreq = 1 /\ IsPipelinePost(last.req, last.pre)
              /\ last.pre = <<>> => last.nreq = 0 /\ last.outcome = "return"

\* the block was left by an exception with two commands still buffered
C9_Witness ==
    /\ Idle /\ last.op = "__exit__" /\ last.call[2] = "ValueError"
    /\ Len(last.pre) = 2 /\ last.nreq = 1 /\ pipe.commands = <<>>

\* C10: every request carries Authorization: Bearer <credential>, Accept,
\* Content-Type and User-Agent, whether or not the caller supplied headers,
\* and sending never writes Authorization into the configuration's headers.
C10_HeadersMerged ==
    /\ pc = "inflight" =>
          /\ <<"Authorization", "Bearer " \o _client.config.access_key>> \in pending.req.headers
          /\ <<"Accept", "application/json">> \in pending.req.headers
          /\ <<"Content-Type", "application/json">> \in pending.req.headers
          /\ <<"User-Agent", "kachy-valkey-python/0.1.0">> \in pending.req.headers
    /\ ~DictHas(_client.config.headers, "Authorization")

====
